---------------------------- MODULE Spec2Model ----------------------------
(***************************************************************************)
(* A model of hw2/stock_price_tracker.py: one Streamlit script run of      *)
(* main() (a "lookup"), the two fetch functions it calls and the widgets   *)
(* it renders.                                                             *)
(*                                                                         *)
(* Representation of Python values:                                        *)
(*   - a str is a sequence of tokens; a token is one character of user or  *)
(*     provider text, or one literal of the source taken whole.  String    *)
(*     concatenation and f-strings are \o, the empty string is << >>;      *)
(*   - an optional value (None or a value, an absent or present dict key,  *)
(*     NaN/NaT or a number) is a sequence of length at most one;           *)
(*   - a JSON value of a record field is [t |-> "null"] or                 *)
(*     [t |-> "str", v |-> text].                                          *)
(***************************************************************************)
EXTENDS Integers, Sequences, FiniteSets, TLC

VARIABLES
    pc,            \* position of the script run inside main()
    symbol,        \* main's local `symbol` (raw, then stripped and uppercased)
    tsResponse,    \* outcome of requests.get(.../time_series), once issued
    quoteResponse, \* outcome of requests.get(.../quote), once issued
    df,            \* main's local `df`
    error,         \* main's local `error`
    quote_data,    \* main's local `quote_data`
    tsCalls,       \* time-series requests issued in this lookup
    quoteCalls,    \* quote requests issued in this lookup
    ui             \* widgets rendered by this script run, in order

vars == <<pc, symbol, tsResponse, quoteResponse, df, error, quote_data,
          tsCalls, quoteCalls, ui>>

-----------------------------------------------------------------------------
(* Bounds of the model                                                     *)

\* longest run of blanks put before and after the typed symbol
MaxPad == 1
\* how far past the length limit the typed symbols go
MaxOver == 1
\* how many records past the retained seven a provider payload may hold
MaxExtra == 2
\* longest payload a whole lookup (specification Spec) is run on
MaxFlowRecords == 2

(* Program constants                                                       *)

\* len(symbol) > 10
MAX_SYMBOL_LEN == 10
\* df.tail(7)
TAIL_N == 7

-----------------------------------------------------------------------------
(* Optional values                                                         *)

None == << >>
Some(x) == <<x>>
NaN == << >>
NaT == << >>

\* Python's max/min of two ints
Max(a, b) == IF a >= b THEN a ELSE b
Min(a, b) == IF a <= b THEN a ELSE b

-----------------------------------------------------------------------------
(* str.strip(), str.upper(), len()                                         *)

RECURSIVE LStrip(_)
LStrip(s) == IF s # << >> /\ Head(s) = " " THEN LStrip(Tail(s)) ELSE s

RECURSIVE RStrip(_)
RStrip(s) ==
    IF s # << >> /\ s[Len(s)] = " " THEN RStrip(SubSeq(s, 1, Len(s) - 1)) ELSE s

Strip(s) == RStrip(LStrip(s))

Upper(s) == [i \in 1..Len(s) |-> IF s[i] = "a" THEN "A" ELSE s[i]]

\* symbol = symbol.strip().upper()
Normalize(s) == Upper(Strip(s))

\* Python truthiness of a str
Truthy(s) == s # << >>

\* as SymbolLengthOk, but the upper limit is not checked
SymbolLengthOkNoUpperLimit(s) == ~(Len(s) < 1)

\* the negation of: len(symbol) < 1 or len(symbol) > 10
SymbolLengthOk(s) == ~(Len(s) < 1 \/ Len(s) > MAX_SYMBOL_LEN)

-----------------------------------------------------------------------------
(* Text of numbers and dates, as the provider writes and pandas reads it   *)

DigitChars == <<"0", "1", "2", "3", "4", "5", "6", "7", "8", "9">>

IsDigit(c) == c \in {"0", "1", "2", "3", "4", "5", "6", "7", "8", "9"}

DigitVal(c) ==
    CASE c = "0" -> 0 [] c = "1" -> 1 [] c = "2" -> 2 [] c = "3" -> 3
      [] c = "4" -> 4 [] c = "5" -> 5 [] c = "6" -> 6 [] c = "7" -> 7
      [] c = "8" -> 8 [] c = "9" -> 9

\* the decimal text of a natural number
RECURSIVE NumText(_)
NumText(n) ==
    IF n < 10 THEN <<DigitChars[n + 1]>>
    ELSE NumText(n \div 10) \o <<DigitChars[(n % 10) + 1]>>

\* the number the first k digits of a text denote
RECURSIVE ParsePrefix(_, _)
ParsePrefix(s, k) ==
    IF k = 0 THEN 0 ELSE 10 * ParsePrefix(s, k - 1) + DigitVal(s[k])

\* the number a text of digits denotes
ParseDigits(s) == ParsePrefix(s, Len(s))

IsNumberText(s) == s # << >> /\ \A i \in 1..Len(s) : IsDigit(s[i])

JNull == [t |-> "null"]
JStr(s) == [t |-> "str", v |-> s]

\* pd.to_numeric(value, errors="coerce") on one cell
ToNumeric(j) ==
    IF j.t = "str" /\ IsNumberText(j.v) THEN Some(ParseDigits(j.v)) ELSE NaN

\* the day-of-month part "DD" of the provider's "YYYY-MM-DD"
DateText(d) == IF d < 10 THEN <<"0">> \o NumText(d) ELSE NumText(d)

\* pd.to_datetime raises on this cell
DateUnparsable(j) == j.t = "str" /\ ~(Len(j.v) = 2 /\ IsNumberText(j.v))

\* pd.to_datetime on one cell that parses: null becomes NaT
ToDatetime(j) == IF j.t = "null" THEN NaT ELSE Some(ParseDigits(j.v))


-----------------------------------------------------------------------------
(* The DataFrame steps of fetch_stock_data                                 *)

NumericColumns == {"open", "high", "low", "close", "volume"}

\* pd.DataFrame(values) with the datetime and numeric columns converted
ParseRecord(r) ==
    [datetime |-> ToDatetime(r.datetime),
     open     |-> ToNumeric(r.open),
     high     |-> ToNumeric(r.high),
     low      |-> ToNumeric(r.low),
     close    |-> ToNumeric(r.close),
     volume   |-> ToNumeric(r.volume)]

HasNaN(row) ==
    \/ row.open = NaN \/ row.high = NaN \/ row.low = NaN
    \/ row.close = NaN \/ row.volume = NaN

\* as ParsedRows, but the rows holding a NaN are dropped (a dropna())
ParsedRowsDropNaN(values) ==
    SelectSeq([i \in 1..Len(values) |-> ParseRecord(values[i])],
              LAMBDA row : ~HasNaN(row))

ParsedRows(values) == [i \in 1..Len(values) |-> ParseRecord(values[i])]

\* the order of sort_values("datetime"): ascending, NaT last
Before(a, b) ==
    /\ a.datetime # NaT
    /\ \/ b.datetime = NaT
       \/ a.datetime[1] < b.datetime[1]

\* The stable ascending order of the rows: row i goes behind the rows that are
\* before it and behind the equal rows that precede it in the payload.
Rank(rows, i) ==
    Cardinality({j \in 1..Len(rows) :
                    \/ Before(rows[j], rows[i])
                    \/ (~Before(rows[i], rows[j]) /\ j < i)}) + 1

\* as SortValues, but the rows stay in the provider's order
SortValuesKeepOrder(rows) == rows

\* as SortValues, but newest first (ascending=False)
SortValuesDescending(rows) ==
    LET rank == [i \in 1..Len(rows) |-> Rank(rows, i)]
    IN  [p \in 1..Len(rows) |->
            rows[CHOOSE i \in 1..Len(rows) : rank[i] = Len(rows) + 1 - p]]

\* df.sort_values("datetime").  Rows of equal date are kept in their payload
\* order; pandas leaves that order open, and no property below rests on it.
SortValues(rows) ==
    LET rank == [i \in 1..Len(rows) |-> Rank(rows, i)]
    IN  [p \in 1..Len(rows) |-> rows[CHOOSE i \in 1..Len(rows) : rank[i] = p]]

\* as DfTail, but the first n rows (a head(n))
DfHead(rows, n) == SubSeq(rows, 1, Min(n, Len(rows)))

\* df.tail(n)
DfTail(rows, n) == SubSeq(rows, Max(1, Len(rows) - n + 1), Len(rows))

-----------------------------------------------------------------------------
(* fetch_stock_data                                                        *)

\* as ApiErrorMessage, but always the fallback text
ApiErrorMessageDefault(data) == <<"API returned an error">>

\* data.get("message", "API returned an error")
ApiErrorMessage(data) ==
    IF data.message # None THEN data.message[1] ELSE <<"API returned an error">>

\* as NoDataMessage, without the symbol
NoDataMessageNoSymbol(sym) ==
    <<"No data found for symbol ">> \o
    <<". Please check if the symbol is valid.">>

\* f"No data found for symbol {symbol}. Please check if the symbol is valid."
NoDataMessage(sym) ==
    <<"No data found for symbol ">> \o sym \o
    <<". Please check if the symbol is valid.">>

\* "values" not in data or not data["values"]
HasNoValues(data) == data.values = None \/ data.values[1] = << >>

\* "status" in data and data["status"] == "error"
IsApiError(data) == data.status # None /\ data.status[1] = "error"

\* The (df, error) pair fetch_stock_data(symbol) returns when its request
\* has the outcome resp.
fetch_stock_data(sym, resp) ==
    IF resp.net \in {"fail", "http_error"}
    THEN \* requests.get or raise_for_status raised a RequestException
         [df |-> None, error |-> Some(<<"Network error: ">> \o resp.exc)]
    ELSE IF ~resp.json
    THEN \* response.json() raised: a RequestException in requests >= 2.27,
         \* a plain ValueError before
         [df |-> None,
          error |-> Some((IF resp.decodeErrorIsRequestException
                          THEN <<"Network error: ">>
                          ELSE <<"Error processing data: ">>) \o resp.exc)]
    ELSE LET data == resp.data IN
         IF IsApiError(data)
         THEN [df |-> None, error |-> Some(ApiErrorMessage(data))]
         ELSE IF HasNoValues(data)
         THEN [df |-> None, error |-> Some(NoDataMessage(sym))]
         ELSE LET values == data.values[1] IN
              IF \E i \in 1..Len(values) : DateUnparsable(values[i].datetime)
              THEN \* pd.to_datetime raised
                   [df |-> None,
                    error |-> Some(<<"Error processing data: ",
                                     "Unknown datetime string format">>)]
              ELSE LET parsed == ParsedRows(values)
                       sorted == SortValues(parsed)
                   IN  [df |-> Some(DfTail(sorted, TAIL_N)), error |-> None]

-----------------------------------------------------------------------------
(* fetch_current_quote                                                     *)

\* as fetch_current_quote, but an error-status body is returned like a quote
fetch_current_quote_KeepErrorBody(sym, resp) ==
    IF resp.net \in {"fail", "http_error"} THEN None
    ELSE IF ~resp.json THEN None
    ELSE Some(resp.data)

\* The value fetch_current_quote(symbol) returns when its request has the
\* outcome resp; the bare except turns every exception into None.
fetch_current_quote(sym, resp) ==
    IF resp.net \in {"fail", "http_error"} THEN None
    ELSE IF ~resp.json THEN None
    ELSE IF IsApiError(resp.data) THEN None
    ELSE Some(resp.data)

-----------------------------------------------------------------------------
(* display_stock_info, create_price_chart and the widgets of main          *)

El(widget, text, value) == [widget |-> widget, text |-> text, value |-> value]

\* float(text) of a quote field
Float(text) == ParseDigits(text)

\* the numbers of a column that are not NaN
Present(rows, col) == {rows[i][col][1] : i \in {k \in 1..Len(rows) : rows[k][col] # NaN}}

\* df[col].max(): NaN values are skipped, NaN when there is none
ColumnMax(rows, col) ==
    LET xs == Present(rows, col)
    IN  IF xs = {} THEN NaN ELSE Some(CHOOSE x \in xs : \A y \in xs : y <= x)

\* df[col].min()
ColumnMin(rows, col) ==
    LET xs == Present(rows, col)
    IN  IF xs = {} THEN NaN ELSE Some(CHOOSE x \in xs : \A y \in xs : x <= y)

\* quote_data.get(key) is truthy
QuoteHas(q, key) == q[key] # None /\ Truthy(q[key][1])

\* Python truthiness of the quote dict: it has a key
QuoteTruthy(q) ==
    \/ q.status # None \/ q.message # None \/ q.close # None
    \/ q.change # None \/ q.percent_change # None

\* the metrics display_stock_info(quote_data, df) renders, in order
display_stock_info(q, d) ==
    IF q # None /\ QuoteTruthy(q[1]) /\ d # None
    THEN (IF QuoteHas(q[1], "close")
          THEN <<El("metric", <<"Current Price">>, <<Float(q[1].close[1])>>)>>
          ELSE << >>)
         \o
         (IF QuoteHas(q[1], "change") /\ QuoteHas(q[1], "percent_change")
          THEN <<El("metric", <<"Daily Change">>,
                    <<Float(q[1].change[1]), Float(q[1].percent_change[1])>>)>>
          ELSE << >>)
         \o
         (IF d[1] # << >>
          THEN <<El("metric", <<"7-Day High">>, ColumnMax(d[1], "high")),
                 El("metric", <<"7-Day Low">>, ColumnMin(d[1], "low"))>>
          ELSE << >>)
    ELSE << >>

\* the figure of create_price_chart(df, symbol): its title and its bar count
create_price_chart(d, sym) ==
    El("plotly_chart", Upper(sym) \o <<" - 7-Day Price Chart">>, <<Len(d)>>)

\* as RenderResult, but without the `if error:` branch
RenderResultIgnoreError(sym, d, err, q) ==
    IF d = None \/ d[1] = << >>
    THEN <<El("error", <<"No data available for ">> \o sym \o
                       <<". Please check the symbol and try again.">>, << >>)>>
    ELSE <<El("success", <<"Successfully loaded data for ">> \o sym, << >>)>>
         \o display_stock_info(q, d)
         \o <<El("subheader", sym \o <<" - 7-Day Price Chart">>, << >>),
              create_price_chart(d[1], sym),
              El("dataframe", <<"View Raw Data">>, <<Len(d[1])>>)>>

\* what main renders after both fetches (from `if error:` on)
RenderResult(sym, d, err, q) ==
    IF err # None /\ Truthy(err[1])
    THEN <<El("error", <<"[x] ">> \o err[1], << >>),
           El("info", <<"Tip: Make sure you're using a valid stock symbol">>, << >>)>>
    ELSE IF d = None \/ d[1] = << >>
    THEN <<El("error", <<"No data available for ">> \o sym \o
                       <<". Please check the symbol and try again.">>, << >>)>>
    ELSE <<El("success", <<"Successfully loaded data for ">> \o sym, << >>)>>
         \o display_stock_info(q, d)
         \o <<El("subheader", sym \o <<" - 7-Day Price Chart">>, << >>),
              create_price_chart(d[1], sym),
              El("dataframe", <<"View Raw Data">>, <<Len(d[1])>>)>>

-----------------------------------------------------------------------------
(* What the user types and what the provider answers                       *)

Blanks(n) == [i \in 1..n |-> " "]
Letters(n, c) == [i \in 1..n |-> c]

\* the texts typed into st.text_input
SymbolInputs ==
    {Blanks(l) \o Letters(n, c) \o Blanks(r) :
        l \in 0..MaxPad, r \in 0..MaxPad,
        n \in 0..(MAX_SYMBOL_LEN + MaxOver), c \in {"a", "A"}}

\* the provider's record of trading day d
DayRecord(d) ==
    [datetime |-> JStr(DateText(d)),
     open     |-> JStr(NumText(145 + d)),
     high     |-> JStr(NumText(150 + d)),
     low      |-> JStr(NumText(140 + d)),
     close    |-> JStr(NumText(146 + d)),
     volume   |-> JStr(NumText(1000 + d))]

\* n consecutive days, oldest or newest first, rotated by k places
DayOrder(n, newestFirst, k) ==
    [i \in 1..n |->
        LET j == ((i - 1 + k) % n) + 1
        IN  DayRecord(IF newestFirst THEN n + 1 - j ELSE j)]

\* a payload of n records, and the payloads that differ from it in one place:
\* two records exchanged, a date repeated, a date unreadable, a date null,
\* one numeric field unreadable
PayloadsOf(base) ==
    LET I == 1..Len(base) IN
    {base}
    \cup {[base EXCEPT ![i] = base[j], ![j] = base[i]] : i \in I, j \in I}
    \cup {[base EXCEPT ![i].datetime = base[j].datetime] : i \in I, j \in I}
    \cup {[base EXCEPT ![i].datetime = JStr(<<"n", "/", "a">>)] : i \in I}
    \cup {[base EXCEPT ![i].datetime = JNull] : i \in I}
    \cup {[base EXCEPT ![i][c] = JStr(<<"n", "/", "a">>)] :
            i \in I, c \in NumericColumns}

Payloads(maxLen) ==
    UNION {UNION {PayloadsOf(DayOrder(n, nf, k)) :
                    nf \in BOOLEAN, k \in 0..Max(0, n - 1)} : n \in 0..maxLen}

FailedResponses ==
    {[net |-> "fail", exc |-> <<"Read timed out.">>],
     [net |-> "http_error", exc |-> <<"500 Server Error">>]}
    \cup {[net |-> "ok", json |-> FALSE, decodeErrorIsRequestException |-> b,
           exc |-> <<"Expecting value: line 1 column 1 (char 0)">>] :
            b \in BOOLEAN}

JsonResponse(data) == [net |-> "ok", json |-> TRUE, data |-> data]

ProviderMessages == {None, Some(<< >>), Some(<<"Invalid API key">>)}

\* the outcomes of the /time_series request, with payloads of up to maxLen
TsResponses(maxLen) ==
    FailedResponses
    \cup {JsonResponse([status |-> Some("error"), message |-> m, values |-> v]) :
            m \in ProviderMessages, v \in {None, Some(<<DayRecord(1)>>)}}
    \cup {JsonResponse([status |-> st, message |-> None, values |-> None]) :
            st \in {None, Some("ok")}}
    \cup {JsonResponse([status |-> Some("ok"), message |-> None,
                        values |-> Some(v)]) : v \in Payloads(maxLen)}
    \cup {JsonResponse([status |-> None, message |-> None, values |-> Some(v)]) :
            v \in Payloads(Min(maxLen, MaxFlowRecords))}

QuoteFieldTexts == {None, Some(NumText(150))}

\* the outcomes of the /quote request
QuoteResponses ==
    FailedResponses
    \cup {JsonResponse([status |-> Some("error"), message |-> m, close |-> None,
                        change |-> None, percent_change |-> None]) :
            m \in ProviderMessages}
    \cup {JsonResponse([status |-> None, message |-> None, close |-> cl,
                        change |-> ch, percent_change |-> pch]) :
            cl \in QuoteFieldTexts, ch \in QuoteFieldTexts, pch \in QuoteFieldTexts}

-----------------------------------------------------------------------------
(* main: one script run                                                    *)

Init ==
    /\ pc = "input"
    /\ symbol = << >>
    /\ tsResponse = None
    /\ quoteResponse = None
    /\ df = None
    /\ error = None
    /\ quote_data = None
    /\ tsCalls = 0
    /\ quoteCalls = 0
    /\ ui = << >>

\* symbol and (search_button or symbol)
Triggered(input, search_button) ==
    Truthy(input) /\ (search_button \/ Truthy(input))

\* main, from the text input to the spinner: nothing typed
ShowInstructions ==
    /\ pc = "input"
    /\ \E input \in SymbolInputs, search_button \in BOOLEAN :
        /\ ~Triggered(input, search_button)
        /\ symbol' = input
        /\ ui' = <<El("info", <<"Enter a stock symbol above to get started">>, << >>),
                   El("markdown", <<"Popular Stock Symbols">>, << >>)>>
    /\ pc' = "done"
    /\ UNCHANGED <<tsResponse, quoteResponse, df, error, quote_data,
                   tsCalls, quoteCalls>>

\* main, from the text input to the spinner: the length check fails
RejectSymbol ==
    /\ pc = "input"
    /\ \E input \in SymbolInputs, search_button \in BOOLEAN :
        /\ Triggered(input, search_button)
        /\ ~SymbolLengthOk(Normalize(input))
        /\ symbol' = Normalize(input)
        /\ ui' = <<El("error",
                      <<"Please enter a valid stock symbol (1-10 characters)">>,
                      << >>)>>
    /\ pc' = "done"
    /\ UNCHANGED <<tsResponse, quoteResponse, df, error, quote_data,
                   tsCalls, quoteCalls>>

\* main, from the text input to the spinner: the symbol passes
AcceptSymbol ==
    /\ pc = "input"
    /\ \E input \in SymbolInputs, search_button \in BOOLEAN :
        /\ Triggered(input, search_button)
        /\ SymbolLengthOk(Normalize(input))
        /\ symbol' = Normalize(input)
    /\ pc' = "fetch_stock_data"
    /\ UNCHANGED <<tsResponse, quoteResponse, df, error, quote_data,
                   tsCalls, quoteCalls, ui>>

\* df, error = fetch_stock_data(symbol)
FetchStockData ==
    /\ pc = "fetch_stock_data"
    /\ \E resp \in TsResponses(MaxFlowRecords) :
        /\ tsResponse' = Some(resp)
        /\ LET result == fetch_stock_data(symbol, resp)
           IN  df' = result.df /\ error' = result.error
    /\ tsCalls' = tsCalls + 1
    /\ pc' = "fetch_current_quote"
    /\ UNCHANGED <<symbol, quoteResponse, quote_data, quoteCalls, ui>>

\* quote_data = fetch_current_quote(symbol)
FetchCurrentQuote ==
    /\ pc = "fetch_current_quote"
    /\ \E resp \in QuoteResponses :
        /\ quoteResponse' = Some(resp)
        /\ quote_data' = fetch_current_quote(symbol, resp)
    /\ quoteCalls' = quoteCalls + 1
    /\ pc' = "render"
    /\ UNCHANGED <<symbol, tsResponse, df, error, tsCalls, ui>>

\* main, from `if error:` to its end
Render ==
    /\ pc = "render"
    /\ ui' = ui \o RenderResult(symbol, df, error, quote_data)
    /\ pc' = "done"
    /\ UNCHANGED <<symbol, tsResponse, quoteResponse, df, error, quote_data,
                   tsCalls, quoteCalls>>

\* the next interaction runs the script again, from scratch
Rerun ==
    /\ pc = "done"
    /\ pc' = "input"
    /\ symbol' = << >>
    /\ tsResponse' = None
    /\ quoteResponse' = None
    /\ df' = None
    /\ error' = None
    /\ quote_data' = None
    /\ tsCalls' = 0
    /\ quoteCalls' = 0
    /\ ui' = << >>

Next ==
    \/ ShowInstructions
    \/ RejectSymbol
    \/ AcceptSymbol
    \/ FetchStockData
    \/ FetchCurrentQuote
    \/ Render
    \/ Rerun

Spec == Init /\ [][Next]_vars

-----------------------------------------------------------------------------
(* fetch_stock_data alone, on the longer payloads                          *)

NormSymbols == {Letters(1, "A")}

InitNorm ==
    /\ pc = "fetch_stock_data"
    /\ symbol \in NormSymbols
    /\ tsResponse \in {Some(r) : r \in TsResponses(TAIL_N + MaxExtra)}
    /\ quoteResponse = None
    /\ df = None
    /\ error = None
    /\ quote_data = None
    /\ tsCalls = 0
    /\ quoteCalls = 0
    /\ ui = << >>

\* df, error = fetch_stock_data(symbol), the response being tsResponse
NormFetch ==
    /\ pc = "fetch_stock_data"
    /\ tsCalls = 0
    /\ LET result == fetch_stock_data(symbol, tsResponse[1])
       IN  df' = result.df /\ error' = result.error
    /\ tsCalls' = tsCalls + 1
    /\ pc' = "returned"
    /\ UNCHANGED <<symbol, tsResponse, quoteResponse, quote_data, quoteCalls, ui>>

NextNorm == NormFetch

SpecNorm == InitNorm /\ [][NextNorm]_vars

-----------------------------------------------------------------------------
(* Vocabulary of the properties                                            *)

\* fetch_stock_data has returned in this lookup
Returned == tsCalls > 0

\* the time-series response was decoded as JSON
TsJson == tsResponse # None /\ tsResponse[1].net = "ok" /\ tsResponse[1].json

TsData == tsResponse[1].data

\* the decoded response carries an explicit error status
TsErrorStatus == TsData.status # None /\ TsData.status[1] = "error"

\* the decoded response has a non-empty `values` list
TsHasValues == TsData.values # None /\ TsData.values[1] # << >>

TsValues == TsData.values[1]

\* the record's date is a readable calendar date
DateReadable(r) ==
    r.datetime.t = "str" /\ Len(r.datetime.v) = 2 /\ IsNumberText(r.datetime.v)

\* the record's date is readable or null (pandas reads null as NaT)
DateAccepted(r) == r.datetime.t = "null" \/ DateReadable(r)

NumberReadable(j) == j.t = "str" /\ IsNumberText(j.v)

WellFormedRecord(r) ==
    DateReadable(r) /\ \A c \in NumericColumns : NumberReadable(r[c])

DayOfRecord(r) == ParseDigits(r.datetime.v)

AllOf(values, P(_)) == \A i \in 1..Len(values) : P(values[i])

\* the dates of a returned series, in order
SeriesDays(rows) == [i \in 1..Len(rows) |-> rows[i].datetime[1]]

Ascending(days) == \A i, j \in 1..Len(days) : i < j => days[i] <= days[j]

StrictlyAscending(days) == \A i, j \in 1..Len(days) : i < j => days[i] < days[j]

Count(seq, x) == Cardinality({i \in 1..Len(seq) : seq[i] = x})

\* `sub` occurs in `text`, token for token
Contains(text, sub) ==
    \E k \in 0..(Len(text) - Len(sub)) : SubSeq(text, k + 1, k + Len(sub)) = sub

Shown(widget) == \E i \in 1..Len(ui) : ui[i].widget = widget

ShownMetric(label) ==
    \E i \in 1..Len(ui) : ui[i].widget = "metric" /\ ui[i].text = <<label>>

\* the row is the record, field for field, an unreadable number being NaN
RowOfRecord(row, r) ==
    /\ row.datetime = (IF r.datetime.t = "null" THEN NaT ELSE Some(DayOfRecord(r)))
    /\ \A c \in NumericColumns :
        row[c] = (IF NumberReadable(r[c]) THEN Some(ParseDigits(r[c].v)) ELSE NaN)

-----------------------------------------------------------------------------
(* C1.  For a response without error status whose `values` list is         *)
(* non-empty and holds only well-formed records, fetch_stock_data returns  *)
(* a series and no error; the series is in ascending date order, oldest    *)
(* first, and has at most 7 records.                                       *)
C1_SortedAtMostSeven ==
    (Returned /\ TsJson /\ ~TsErrorStatus /\ TsHasValues
        /\ AllOf(TsValues, WellFormedRecord))
    => /\ error = None
       /\ df # None
       /\ Len(df[1]) <= 7
       /\ \A i \in 1..Len(df[1]) : df[1][i].datetime # NaT
       /\ Ascending(SeriesDays(df[1]))

\* a payload of more than 7 well-formed records that the provider sent newest
\* first has been normalized
C1_Witness ==
    /\ Returned /\ TsJson /\ ~TsErrorStatus /\ TsHasValues
    /\ AllOf(TsValues, WellFormedRecord)
    /\ Len(TsValues) > 7
    /\ DayOfRecord(TsValues[1]) > DayOfRecord(TsValues[2])
    /\ df # None /\ Len(df[1]) = 7

(* C2.  For a payload of n daily records in any order the normalizer       *)
(* returns exactly min(n, 7) records, in ascending date order, and they    *)
(* are the records with the most recent dates: every row is a record of    *)
(* the payload, no date occurs more often than in the payload, and a date  *)
(* of which a record was left out is not after any returned date.          *)
C2_SevenMostRecent ==
    (Returned /\ TsJson /\ ~TsErrorStatus /\ TsHasValues
        /\ AllOf(TsValues, DateReadable))
    => /\ df # None
       /\ LET rows == df[1]
              days == SeriesDays(rows)
              given == [i \in 1..Len(TsValues) |-> DayOfRecord(TsValues[i])]
          IN  /\ Len(rows) = Min(Len(TsValues), 7)
              /\ Ascending(days)
              /\ \A i \in 1..Len(rows) :
                    \E k \in 1..Len(TsValues) : RowOfRecord(rows[i], TsValues[k])
              /\ \A k \in 1..Len(given) :
                    /\ Count(days, given[k]) <= Count(given, given[k])
                    /\ Count(days, given[k]) < Count(given, given[k])
                        => \A i \in 1..Len(days) : given[k] <= days[i]

\* a payload of exactly 9 daily records, not in date order, has been
\* normalized to 7
C2_Witness ==
    /\ Returned /\ TsJson /\ ~TsErrorStatus /\ TsHasValues
    /\ AllOf(TsValues, DateReadable)
    /\ Len(TsValues) = 9
    /\ \E i \in 1..8 : DayOfRecord(TsValues[i]) > DayOfRecord(TsValues[i + 1])
    /\ \E i \in 1..8 : DayOfRecord(TsValues[i]) < DayOfRecord(TsValues[i + 1])
    /\ df # None /\ Len(df[1]) = 7

C4_ApiErrorCarriesProviderMessage ==
    (Returned /\ TsJson /\ TsErrorStatus)
    => /\ df = None
       /\ error # None
       /\ TsData.message # None => error[1] = TsData.message[1]
       /\ TsData.message = None => error[1] = <<"API returned an error">>

\* an error response with a message text has been returned as that text
C4_Witness ==
    /\ Returned /\ TsJson /\ TsErrorStatus
    /\ TsData.message = Some(<<"Invalid API key">>)
    /\ error = Some(<<"Invalid API key">>)
    /\ df = None

(* C5.  For a time-series response without error status whose `values` is  *)
(* empty or absent fetch_stock_data returns no series and the no-data      *)
(* message, which names the requested symbol.                              *)
C5_NoDataNamesSymbol ==
    (Returned /\ TsJson /\ ~TsErrorStatus /\ ~TsHasValues)
    => /\ df = None
       /\ error # None
       /\ Head(error[1]) = "No data found for symbol "
       /\ Contains(error[1], symbol)

\* an empty `values` list has been answered with the no-data message
C5_Witness ==
    /\ Returned /\ TsJson /\ ~TsErrorStatus
    /\ TsData.values = Some(<< >>)
    /\ Len(symbol) > 1
    /\ df = None /\ error # None /\ Contains(error[1], symbol)

\* the quote request failed: a transport or HTTP error, an undecodable body
\* or an explicit error status
QuoteFailed ==
    /\ quoteResponse # None
    /\ \/ quoteResponse[1].net # "ok"
       \/ ~quoteResponse[1].json
       \/ (quoteResponse[1].data.status # None
            /\ quoteResponse[1].data.status[1] = "error")

\* the time-series request succeeded: a decoded body without error status
\* whose non-empty `values` list holds only readable or null dates
TsSucceeded ==
    /\ TsJson /\ ~TsErrorStatus /\ TsHasValues
    /\ AllOf(TsValues, DateAccepted)

(* C6.  When the quote fetch fails and the time-series fetch succeeds the  *)
(* lookup still succeeds: fetch_current_quote has returned None without    *)
(* stopping the run, the success message, the chart and the data table are *)
(* rendered over the whole series, no error is rendered, and neither the   *)
(* current price nor the daily change is displayed.                        *)
C6_QuoteFailureIsNotFatal ==
    (QuoteFailed /\ TsSucceeded)
    => /\ quote_data = None
       /\ pc \in {"render", "done"}
       /\ pc = "done" =>
            /\ df # None /\ df[1] # << >>
            /\ Shown("success")
            /\ \E i \in 1..Len(ui) :
                ui[i].widget = "plotly_chart" /\ ui[i].value = <<Len(df[1])>>
            /\ \E i \in 1..Len(ui) :
                ui[i].widget = "dataframe" /\ ui[i].value = <<Len(df[1])>>
            /\ ~Shown("error")
            /\ ~ShownMetric("Current Price")
            /\ ~ShownMetric("Daily Change")

\* a lookup whose quote request got an error status has rendered its chart
C6_Witness ==
    /\ pc = "done"
    /\ TsSucceeded
    /\ quoteResponse # None /\ quoteResponse[1].net = "ok" /\ quoteResponse[1].json
    /\ quoteResponse[1].data.status = Some("error")
    /\ quote_data = None
    /\ Shown("success") /\ Shown("plotly_chart") /\ Shown("dataframe")

(* C7.  The four statistics are independently optional: after a successful *)
(* lookup over a non-empty series the 7-day high and the 7-day low are     *)
(* displayed whether or not a quote is present, the current price is       *)
(* displayed when the quote has it, and the daily change is displayed when *)
(* the quote has both of its fields.                                       *)
C7_StatisticsIndependent ==
    (pc = "done" /\ TsSucceeded /\ AllOf(TsValues, WellFormedRecord)
        /\ Shown("success") /\ df # None /\ df[1] # << >>)
    => /\ ShownMetric("7-Day High")
       /\ ShownMetric("7-Day Low")
       /\ (quote_data # None /\ quote_data[1].close # None)
            => ShownMetric("Current Price")
       /\ (quote_data # None /\ quote_data[1].change # None
                /\ quote_data[1].percent_change # None)
            => ShownMetric("Daily Change")

(* C8, as claimed.  In every series fetch_stock_data returns, for any      *)
(* provider payload, the dates are unique and strictly increasing.         *)
C8_DatesUniqueForAnyPayload ==
    (Returned /\ df # None)
    => /\ \A i \in 1..Len(df[1]) : df[1][i].datetime # NaT
       /\ StrictlyAscending(SeriesDays(df[1]))

(* C8, amended.  In every series fetch_stock_data returns for a payload    *)
(* whose records carry readable, pairwise distinct dates, the dates are    *)
(* unique and strictly increasing.                                         *)
C8_DatesUniqueForDistinctDates ==
    (Returned /\ TsJson /\ ~TsErrorStatus /\ TsHasValues
        /\ AllOf(TsValues, DateReadable)
        /\ \A i, j \in 1..Len(TsValues) :
            i # j => DayOfRecord(TsValues[i]) # DayOfRecord(TsValues[j]))
    => /\ df # None
       /\ \A i \in 1..Len(df[1]) : df[1][i].datetime # NaT
       /\ StrictlyAscending(SeriesDays(df[1]))

\* a payload of more than 7 records with distinct dates, the oldest not
\* first, has been normalized
C8_Witness ==
    /\ Returned /\ TsJson /\ ~TsErrorStatus /\ TsHasValues
    /\ AllOf(TsValues, DateReadable)
    /\ \A i, j \in 1..Len(TsValues) :
        i # j => DayOfRecord(TsValues[i]) # DayOfRecord(TsValues[j])
    /\ Len(TsValues) > 7
    /\ \E i \in 2..Len(TsValues) :
        DayOfRecord(TsValues[i]) < DayOfRecord(TsValues[1])
    /\ df # None /\ Len(df[1]) = 7

(* C9.  When the time-series fetch yields an error the lookup is terminal: *)
(* the run ends with an error rendered that holds the error message        *)
(* verbatim, neither the success message nor a statistic, the chart or the *)
(* data table is rendered, whatever the quote fetch returned, and the      *)
(* time-series request was issued once, not again.                         *)
C9_TimeSeriesErrorIsTerminal ==
    /\ tsCalls <= 1
    /\ (pc = "done" /\ Returned /\ error # None)
        => /\ tsCalls = 1
           /\ \E i \in 1..Len(ui) :
                ui[i].widget = "error" /\ Contains(ui[i].text, error[1])
           /\ ~Shown("success")
           /\ ~Shown("metric")
           /\ ~Shown("subheader")
           /\ ~Shown("plotly_chart")
           /\ ~Shown("dataframe")

\* a lookup whose time-series request failed on the network has ended with
\* the error rendered although its quote request returned a quote
C9_Witness ==
    /\ pc = "done"
    /\ tsResponse # None /\ tsResponse[1].net = "fail"
    /\ error # None /\ Head(error[1]) = "Network error: "
    /\ quote_data # None /\ quote_data[1].close # None
    /\ Shown("error") /\ ~Shown("success")

(* C10.  A record whose open, high, low, close or volume is unreadable as  *)
(* a number is kept, with NaN in that field: it neither makes              *)
(* fetch_stock_data return an error nor is it dropped, so min(n, 7)        *)
(* records are returned, each field of each either the record's number or  *)
(* NaN, and every record with an unreadable field that is not older than   *)
(* the oldest returned one has its row in the series.                      *)
C10_UnparsableNumberBecomesNaN ==
    (Returned /\ TsJson /\ ~TsErrorStatus /\ TsHasValues
        /\ AllOf(TsValues, DateReadable))
    => /\ error = None
       /\ df # None
       /\ Len(df[1]) = Min(Len(TsValues), 7)
       /\ \A k \in 1..Len(TsValues) :
            (/\ \E c \in NumericColumns : ~NumberReadable(TsValues[k][c])
             /\ \/ Len(TsValues) <= 7
                \/ \E i \in 1..Len(df[1]) :
                    df[1][i].datetime[1] < DayOfRecord(TsValues[k]))
            => \E i \in 1..Len(df[1]) :
                /\ RowOfRecord(df[1][i], TsValues[k])
                /\ HasNaN(df[1][i])

\* a payload of 9 records, one with an unreadable number, has been
\* normalized to 7 rows, one of them holding the NaN
C10_Witness ==
    /\ Returned /\ TsJson /\ ~TsErrorStatus /\ TsHasValues
    /\ AllOf(TsValues, DateReadable)
    /\ Len(TsValues) = 9
    /\ \E k \in 1..9 : ~NumberReadable(TsValues[k].volume)
    /\ error = None /\ df # None /\ Len(df[1]) = 7
    /\ \E i \in 1..7 : df[1][i].volume = NaN /\ df[1][i].high # NaN

=============================================================================
